---- MODULE Spec2Model ----
(***************************************************************************)
(* MultiReader: a concatenating, seekable reader over sized sources with   *)
(* a background prefetcher filling a ring of blocks (src/unnamed/part_000).*)
(*                                                                         *)
(* Threads: the consumer (Read/Seek), a closer (Close, possibly while a    *)
(* Read is blocked), the prefetch goroutine, and exited prefetch           *)
(* goroutines that still have to run close(m.prefetchDone).                *)
(* Every action is one critical section of the code (lock .. unlock or     *)
(* lock .. cond.Wait), together with the unlocked source call before it.   *)
(* A byte of the concatenated stream is modelled by its absolute offset.   *)
(* A call's return is a step of its own: the call's results are in `last`  *)
(* in the state it returns in, and the next step (Return) clears them.     *)
(***************************************************************************)
EXTENDS Integers, Sequences, FiniteSets, TLC

\* ---- program constants ------------------------------------------------
defaultBuffersNum == 4
SeekStart == 0
SeekCurrent == 1
SeekEnd == 2

\* ---- bounds of the model ----------------------------------------------
\* bufferSize is 1 MiB in the code; it is scaled down so that streams of a
\* few bytes span several blocks.
bufferSize == 2
MaxReadLen == 3
MaxLaunch == 2
MaxFaults == 1
MaxSeekOffset == 4
\* calls of Read, Seek and Close in one run
MaxCalls == 4

\* source size lists and buffersNum arguments handed to NewMultiReader
SizeConfigs == { <<1, 0, 2>> }
BuffersNumArgs == { 2 }
Whences == { SeekStart, SeekCurrent, SeekEnd, 99 }
\* size lists with empty sources first, in the middle, last and in a row
\* size lists with sources longer than a block
LongSourceLayouts == { <<5>>, <<4, 0, 1>>, <<0, 3, 6>> }
ZeroLengthLayouts == { <<0, 1>>, <<1, 0>>, <<1, 0, 2>>, <<0, 0, 2>>, <<1, 0, 0, 1>>, <<2, 0, 0>> }
\* the sets of sources whose Close returns an error, one set per run
CloseFailures == { {}, {0, 1} }

VARIABLES
    m,          \* the MultiReader struct (cond = the notify list of m.cond)
    readers,    \* the underlying sources: size, cursor, calls of Size and Close,
                \* whether Close returned an error
    pf,         \* the prefetch goroutine: position in prefetchLoop and its locals
    exited,     \* goroutines that left the deferred critical section and have
                \* close(m.prefetchDone) still to run (their own channel ids)
    chans,      \* channels made so far and the set of closed ones
    cons,       \* the consumer thread: a Read in progress, if any
    clo,        \* the closer thread: position in Close and its locals
    last,       \* the call of the public API that is returning right now, with
                \* its arguments and results; NoCall otherwise
    hist,       \* history: faults injected, consumer calls made, last seek target
                \* (floor), whether that Seek fell into the cached bytes (kind),
                \* and the underlying seeks (usk) and reads (urd) issued since, up
                \* to the first read whose bytes the prefetcher keeps
    panicked    \* the process died of a close of a closed channel

vars == <<m, readers, pf, exited, chans, cons, clo, last, hist, panicked>>

Min(a, b) == IF a < b THEN a ELSE b

Range(s) == { s[i] : i \in DOMAIN s }

\* the bytes [from, from+n) of the concatenated stream
Bytes(from, n) == [ i \in 1..n |-> from + i - 1 ]

NumReaders == Cardinality(DOMAIN readers)

BuffersNum(mm) == Cardinality(DOMAIN mm.buffers)

\* ---- construction -----------------------------------------------------
RECURSIVE SumTo(_, _)
SumTo(sz, k) == IF k = 0 THEN 0 ELSE SumTo(sz, k - 1) + sz[k]

NewMultiReader(buffersNumArg, sz) ==
    LET bn == IF buffersNumArg <= 0 THEN defaultBuffersNum ELSE buffersNumArg
    IN [ totalSize       |-> SumTo(sz, Len(sz)),
         prefixSizes     |-> [ i \in 0..Len(sz) |-> SumTo(sz, i) ],
         absPos          |-> 0,
         buffers         |-> [ i \in 0..(bn - 1) |-> <<>> ],
         headStart       |-> 0,
         headIdx         |-> 0,
         tailIdx         |-> 0,
         occupiedCnt     |-> 0,
         consumedInHead  |-> 0,
         closed          |-> FALSE,
         prefetchErr     |-> "nil",
         cond            |-> {},
         prefetchStarted |-> FALSE,
         prefetchDone    |-> 0,
         pfPos           |-> 0,
         pfNeedSeek      |-> TRUE ]

NewReaders(sz) ==
    [ i \in 0..(Len(sz) - 1) |->
        [ size |-> sz[i + 1], pos |-> 0, sizeCalls |-> 1, closeCalls |-> 0,
          closeFailed |-> FALSE ] ]

PfIdle == [ pc |-> "none", curPos |-> 0, curReaderIdx |-> -1, needSeek |-> TRUE, id |-> 0 ]

ConsIdle == [ pc |-> "idle", len |-> 0, buf |-> <<>>, start |-> 0 ]

CloIdle == [ pc |-> "idle", done |-> 0, returned |-> FALSE ]

\* no call is returning
NoCall == [ op |-> "none", len |-> 0, start |-> 0, buf |-> <<>>, err |-> "nil", pos |-> 0,
            errs |-> <<>>, first |-> FALSE ]

Init ==
    \E sz \in SizeConfigs, bn \in BuffersNumArgs :
        /\ m = NewMultiReader(bn, sz)
        /\ readers = NewReaders(sz)
        /\ pf = PfIdle
        /\ exited = {}
        /\ chans = [ made |-> 0, closed |-> {} ]
        /\ cons = ConsIdle
        /\ clo = CloIdle
        /\ last = NoCall
        /\ hist = [ faults |-> 0, floor |-> -1, calls |-> 0,
                    kind |-> "none", usk |-> "no", urd |-> "none" ]
        /\ panicked = FALSE

\* ---- sync.Cond ----------------------------------------------------------
Broadcast(mm) == [ mm EXCEPT !.cond = {} ]

Wait(mm, who) == [ mm EXCEPT !.cond = @ \cup {who} ]

\* ---- ringOps ------------------------------------------------------------
inHead(mm, pos) ==
    IF mm.occupiedCnt = 0 THEN FALSE
    ELSE LET headEnd == mm.headStart + Len(mm.buffers[mm.headIdx])
         IN mm.headStart <= pos /\ pos < headEnd

\* the bytes the window holds: those of the head block and of the occupied
\* blocks after it, as far as each block continues the one before
RECURSIVE windowRun(_, _, _)
windowRun(mm, i, next) ==
    IF i = mm.occupiedCnt THEN {}
    ELSE LET b == mm.buffers[(mm.headIdx + i) % BuffersNum(mm)]
         IN IF b = <<>> \/ (i > 0 /\ b[1] # next) THEN {}
            ELSE Range(b) \cup windowRun(mm, i + 1, b[Len(b)] + 1)

CachedBytes(mm) == windowRun(mm, 0, 0)

\* the positions the window stands for: from headStart, as many as the
\* occupied blocks hold bytes
RECURSIVE windowLen(_, _)
windowLen(mm, i) ==
    IF i = mm.occupiedCnt THEN 0
    ELSE Len(mm.buffers[(mm.headIdx + i) % BuffersNum(mm)]) + windowLen(mm, i + 1)

\* the bytes of the occupied blocks, from the head block on
RECURSIVE windowContent(_, _)
windowContent(mm, i) ==
    IF i = mm.occupiedCnt THEN <<>>
    ELSE mm.buffers[(mm.headIdx + i) % BuffersNum(mm)] \o windowContent(mm, i + 1)

WindowSpan(mm) == mm.headStart .. (mm.headStart + windowLen(mm, 0) - 1)

\* the loop of seekWithinWindow: left = iterations still to run
RECURSIVE seekWalk(_, _, _, _, _)
seekWalk(mm, seekDelta, headIdx, consumed, left) ==
    IF left = 0 THEN [ ok |-> FALSE, m |-> mm ]
    ELSE LET remain == Len(mm.buffers[headIdx]) - consumed
         IN IF seekDelta < remain
            THEN [ ok |-> TRUE,
                   m  |-> [ mm EXCEPT !.headIdx = headIdx,
                                      !.consumedInHead = consumed + seekDelta ] ]
            ELSE seekWalk(mm, seekDelta - remain, (headIdx + 1) % BuffersNum(mm), 0, left - 1)

seekWithinWindow(mm, pos) ==
    IF mm.occupiedCnt = 0 THEN [ ok |-> FALSE, m |-> mm ]
    ELSE LET effectiveStart == mm.headStart + mm.consumedInHead
         IN IF pos < effectiveStart THEN [ ok |-> FALSE, m |-> mm ]
            ELSE seekWalk(mm, pos - effectiveStart, mm.headIdx, mm.consumedInHead,
                          mm.occupiedCnt)

\* a reset that keeps the producer cursor where it was
resetToKeepsPfPos(mm, pos) ==
    LET K == BuffersNum(mm)
        cleared == { (mm.headIdx + i) % K : i \in 0..(mm.occupiedCnt - 1) }
    IN Broadcast([ mm EXCEPT
            !.buffers = [ j \in DOMAIN mm.buffers |->
                            IF j \in cleared THEN <<>> ELSE mm.buffers[j] ],
            !.tailIdx = mm.headIdx,
            !.occupiedCnt = 0,
            !.consumedInHead = 0,
            !.headStart = pos,
            !.prefetchErr = "nil",
            !.pfNeedSeek = TRUE ])

resetTo(mm, pos) ==
    LET K == BuffersNum(mm)
        cleared == { (mm.headIdx + i) % K : i \in 0..(mm.occupiedCnt - 1) }
    IN Broadcast([ mm EXCEPT
            !.buffers = [ j \in DOMAIN mm.buffers |->
                            IF j \in cleared THEN <<>> ELSE mm.buffers[j] ],
            !.tailIdx = mm.headIdx,
            !.occupiedCnt = 0,
            !.consumedInHead = 0,
            !.headStart = pos,
            !.prefetchErr = "nil",
            !.pfPos = pos,
            !.pfNeedSeek = TRUE ])

\* ---- startPrefetchLocked ------------------------------------------------
\* the struct after the call; the new goroutine and its channel are set up by
\* the caller's action from chans.made
\* a start of the prefetcher that does not set the running flag
startPrefetchLockedNoFlag(mm, newChan) ==
    IF mm.prefetchStarted THEN mm
    ELSE [ mm EXCEPT !.prefetchDone = newChan,
                     !.pfPos = mm.absPos,
                     !.pfNeedSeek = TRUE ]

\* a start of the prefetcher that also empties the terminal slot
startPrefetchLockedClearsErr(mm, newChan) ==
    IF mm.prefetchStarted THEN mm
    ELSE [ mm EXCEPT !.prefetchStarted = TRUE,
                     !.prefetchDone = newChan,
                     !.pfPos = mm.absPos,
                     !.pfNeedSeek = TRUE,
                     !.prefetchErr = "nil" ]

startPrefetchLocked(mm, newChan) ==
    IF mm.prefetchStarted THEN mm
    ELSE [ mm EXCEPT !.prefetchStarted = TRUE,
                     !.prefetchDone = newChan,
                     !.pfPos = mm.absPos,
                     !.pfNeedSeek = TRUE ]

\* ---- Read ---------------------------------------------------------------
\* a Read loop that, having copied some bytes, returns them with nil when the
\* stream or the window ends (the contract of src/task2/task_expected.go)
RECURSIVE ReadLoopPartialNil(_, _, _)
ReadLoopPartialNil(mm, len, buf) ==
    IF ~(Len(buf) < len) THEN [ m |-> mm, buf |-> buf, err |-> "nil", wait |-> FALSE ]
    ELSE IF mm.absPos = mm.totalSize
    THEN [ m |-> mm, buf |-> buf, err |-> IF buf # <<>> THEN "nil" ELSE "EOF", wait |-> FALSE ]
    ELSE IF mm.occupiedCnt = 0 \/ mm.consumedInHead >= Len(mm.buffers[mm.headIdx])
    THEN IF mm.prefetchErr # "nil"
         THEN [ m |-> mm, buf |-> buf,
                err |-> IF buf # <<>> THEN "nil" ELSE mm.prefetchErr, wait |-> FALSE ]
         ELSE [ m |-> Wait(mm, "cons"), buf |-> buf, err |-> "nil", wait |-> TRUE ]
    ELSE LET K == BuffersNum(mm)
             headBuf == mm.buffers[mm.headIdx]
             toCopy == Min(Len(headBuf) - mm.consumedInHead, len - Len(buf))
             copied == SubSeq(headBuf, mm.consumedInHead + 1, mm.consumedInHead + toCopy)
             m1 == [ mm EXCEPT !.absPos = @ + toCopy, !.consumedInHead = @ + toCopy ]
             newHead == (m1.headIdx + 1) % K
             m2 == IF m1.consumedInHead = Len(headBuf)
                   THEN Broadcast([ m1 EXCEPT
                            !.headStart = @ + Len(headBuf),
                            !.headIdx = newHead,
                            !.occupiedCnt = @ - 1,
                            !.consumedInHead = 0,
                            !.buffers[(newHead + K - 1) % K] = <<>> ])
                   ELSE m1
         IN ReadLoopPartialNil(m2, len, buf \o copied)

\* a Read loop that releases the head block after every copy
RECURSIVE ReadLoopDropsHead(_, _, _)
ReadLoopDropsHead(mm, len, buf) ==
    IF ~(Len(buf) < len) THEN [ m |-> mm, buf |-> buf, err |-> "nil", wait |-> FALSE ]
    ELSE IF mm.absPos = mm.totalSize
    THEN [ m |-> mm, buf |-> buf, err |-> "EOF", wait |-> FALSE ]
    ELSE IF mm.occupiedCnt = 0 \/ mm.consumedInHead >= Len(mm.buffers[mm.headIdx])
    THEN IF mm.prefetchErr # "nil"
         THEN [ m |-> mm, buf |-> buf, err |-> mm.prefetchErr, wait |-> FALSE ]
         ELSE [ m |-> Wait(mm, "cons"), buf |-> buf, err |-> "nil", wait |-> TRUE ]
    ELSE LET K == BuffersNum(mm)
             headBuf == mm.buffers[mm.headIdx]
             toCopy == Min(Len(headBuf) - mm.consumedInHead, len - Len(buf))
             copied == SubSeq(headBuf, mm.consumedInHead + 1, mm.consumedInHead + toCopy)
             m1 == [ mm EXCEPT !.absPos = @ + toCopy, !.consumedInHead = @ + toCopy ]
             newHead == (m1.headIdx + 1) % K
             m2 == Broadcast([ m1 EXCEPT
                            !.headStart = @ + Len(headBuf),
                            !.headIdx = newHead,
                            !.occupiedCnt = @ - 1,
                            !.consumedInHead = 0,
                            !.buffers[(newHead + K - 1) % K] = <<>> ])
         IN ReadLoopDropsHead(m2, len, buf \o copied)

\* The loop of Read from its top with n = Len(buf) bytes copied so far, run to
\* the point where it returns or calls cond.Wait.
RECURSIVE ReadLoop(_, _, _)
ReadLoop(mm, len, buf) ==
    IF ~(Len(buf) < len) THEN [ m |-> mm, buf |-> buf, err |-> "nil", wait |-> FALSE ]
    ELSE IF mm.absPos = mm.totalSize
    THEN [ m |-> mm, buf |-> buf, err |-> "EOF", wait |-> FALSE ]
    ELSE IF mm.occupiedCnt = 0 \/ mm.consumedInHead >= Len(mm.buffers[mm.headIdx])
    THEN IF mm.prefetchErr # "nil"
         THEN [ m |-> mm, buf |-> buf, err |-> mm.prefetchErr, wait |-> FALSE ]
         ELSE [ m |-> Wait(mm, "cons"), buf |-> buf, err |-> "nil", wait |-> TRUE ]
    ELSE LET K == BuffersNum(mm)
             headBuf == mm.buffers[mm.headIdx]
             toCopy == Min(Len(headBuf) - mm.consumedInHead, len - Len(buf))
             copied == SubSeq(headBuf, mm.consumedInHead + 1, mm.consumedInHead + toCopy)
             m1 == [ mm EXCEPT !.absPos = @ + toCopy, !.consumedInHead = @ + toCopy ]
             newHead == (m1.headIdx + 1) % K
             m2 == IF m1.consumedInHead = Len(headBuf)
                   THEN Broadcast([ m1 EXCEPT
                            !.headStart = @ + Len(headBuf),
                            !.headIdx = newHead,
                            !.occupiedCnt = @ - 1,
                            !.consumedInHead = 0,
                            !.buffers[(newHead + K - 1) % K] = <<>> ])
                   ELSE m1
         IN ReadLoop(m2, len, buf \o copied)

\* ---- Seek ---------------------------------------------------------------
\* a base that takes io.SeekEnd as the offset of the last byte
SeekBaseEndAtLastByte(mm, whence) ==
    IF whence = SeekStart THEN 0
    ELSE IF whence = SeekCurrent THEN mm.absPos
    ELSE mm.totalSize - 1

SeekBase(mm, whence) ==
    IF whence = SeekStart THEN 0
    ELSE IF whence = SeekCurrent THEN mm.absPos
    ELSE mm.totalSize

\* a Seek without the check of m.closed
SeekIgnoresClosed(mm, offset, whence) ==
    IF whence \notin { SeekStart, SeekCurrent, SeekEnd }
    THEN [ m |-> mm, pos |-> 0, err |-> "invalid whence" ]
    ELSE LET seekPos == SeekBase(mm, whence) + offset
         IN IF seekPos < 0 \/ seekPos > mm.totalSize
            THEN [ m |-> mm, pos |-> 0, err |-> "seek out of range" ]
            ELSE LET within == seekWithinWindow(mm, seekPos)
                     m1 == IF inHead(mm, seekPos)
                           THEN [ mm EXCEPT !.consumedInHead = seekPos - mm.headStart ]
                           ELSE IF within.ok THEN within.m
                           ELSE resetTo(mm, seekPos)
                 IN [ m |-> [ m1 EXCEPT !.absPos = seekPos ], pos |-> seekPos, err |-> "nil" ]

\* a Seek that drops the window and wakes the producer before it checks the range
SeekResetsBeforeRangeCheck(mm, offset, whence) ==
    IF mm.closed THEN [ m |-> mm, pos |-> 0, err |-> "ErrClosedPipe" ]
    ELSE IF whence \notin { SeekStart, SeekCurrent, SeekEnd }
    THEN [ m |-> mm, pos |-> 0, err |-> "invalid whence" ]
    ELSE LET seekPos == SeekBase(mm, whence) + offset
         IN IF seekPos < 0 \/ seekPos > mm.totalSize
            THEN [ m |-> resetTo(mm, mm.absPos), pos |-> 0, err |-> "seek out of range" ]
            ELSE LET within == seekWithinWindow(mm, seekPos)
                     m1 == IF inHead(mm, seekPos)
                           THEN [ mm EXCEPT !.consumedInHead = seekPos - mm.headStart ]
                           ELSE IF within.ok THEN within.m
                           ELSE resetTo(mm, seekPos)
                 IN [ m |-> [ m1 EXCEPT !.absPos = seekPos ], pos |-> seekPos, err |-> "nil" ]

\* a Seek that wakes the waiters when it moves inside the head block
SeekHeadSignals(mm, offset, whence) ==
    IF mm.closed THEN [ m |-> mm, pos |-> 0, err |-> "ErrClosedPipe" ]
    ELSE IF whence \notin { SeekStart, SeekCurrent, SeekEnd }
    THEN [ m |-> mm, pos |-> 0, err |-> "invalid whence" ]
    ELSE LET seekPos == SeekBase(mm, whence) + offset
         IN IF seekPos < 0 \/ seekPos > mm.totalSize
            THEN [ m |-> mm, pos |-> 0, err |-> "seek out of range" ]
            ELSE LET within == seekWithinWindow(mm, seekPos)
                     m1 == IF inHead(mm, seekPos)
                           THEN Broadcast([ mm EXCEPT !.consumedInHead = seekPos - mm.headStart ])
                           ELSE IF within.ok THEN within.m
                           ELSE resetTo(mm, seekPos)
                 IN [ m |-> [ m1 EXCEPT !.absPos = seekPos ], pos |-> seekPos, err |-> "nil" ]

Seek(mm, offset, whence) ==
    IF mm.closed THEN [ m |-> mm, pos |-> 0, err |-> "ErrClosedPipe" ]
    ELSE IF whence \notin { SeekStart, SeekCurrent, SeekEnd }
    THEN [ m |-> mm, pos |-> 0, err |-> "invalid whence" ]
    ELSE LET seekPos == SeekBase(mm, whence) + offset
         IN IF seekPos < 0 \/ seekPos > mm.totalSize
            THEN [ m |-> mm, pos |-> 0, err |-> "seek out of range" ]
            ELSE LET within == seekWithinWindow(mm, seekPos)
                     m1 == IF inHead(mm, seekPos)
                           THEN [ mm EXCEPT !.consumedInHead = seekPos - mm.headStart ]
                           ELSE IF within.ok THEN within.m
                           ELSE resetTo(mm, seekPos)
                 IN [ m |-> [ m1 EXCEPT !.absPos = seekPos ], pos |-> seekPos, err |-> "nil" ]

\* ---- the underlying sources (io.ReadSeekCloser contract) ----------------
\* reader.Seek(localOffset, io.SeekStart): succeeds, or fails while the model's
\* fault budget lasts
SourceSeekErrs == { "nil" } \cup (IF hist.faults < MaxFaults THEN { "seekErr" } ELSE {})

\* reader.Read(buf) with len(buf) = toRead from the source's cursor: 1..toRead
\* bytes with nil, the last bytes with nil or io.EOF, (0, io.EOF) at the end;
\* a faulty source fails, possibly with some bytes
SourceReadResults(r, toRead) ==
    LET avail == r.size - r.pos
        most == Min(toRead, avail)
        good == IF avail = 0 THEN { [ n |-> 0, err |-> "EOF" ] }
                ELSE { [ n |-> k, err |-> "nil" ] : k \in 1..most }
                     \cup (IF most = avail THEN { [ n |-> avail, err |-> "EOF" ] } ELSE {})
        bad  == IF hist.faults < MaxFaults
                THEN { [ n |-> k, err |-> "readErr" ] : k \in 0..most }
                ELSE {}
    IN good \cup bad

SomeSourceClosed == \E i \in DOMAIN readers : readers[i].closeCalls > 0

\* ---- prefetchLoop -------------------------------------------------------
\* a search that stops one index early
SortSearchOneEarly(n, f) ==
    IF \E i \in 0..(n - 1) : (i + 1) \in f \/ i \in f
    THEN CHOOSE i \in 0..(n - 1) :
            /\ (i + 1) \in f \/ i \in f
            /\ \A j \in 0..(i - 1) : (j + 1) \notin f /\ j \notin f
    ELSE n

\* sort.Search(n, f): the smallest i in [0, n) with f(i), or n; f is given as
\* the set of the indices it holds for
SortSearch(n, f) ==
    IF \E i \in 0..(n - 1) : i \in f
    THEN CHOOSE i \in 0..(n - 1) : i \in f /\ \A j \in 0..(i - 1) : j \notin f
    ELSE n

\* lines 368-379: the source the prefetcher selects for the position curPos of a
\* composite over sources of the sizes sz, and the offset it seeks it to
SourceAt(sz, curPos) ==
    LET prefixSizes == NewMultiReader(0, sz).prefixSizes
        found == { i \in 0..(Len(sz) - 1) : prefixSizes[i + 1] > curPos }
        idx == SortSearch(Len(sz), found)
    IN [ curReaderIdx |-> idx, localOffset |-> curPos - prefixSizes[idx] ]

\* lines 396-404: the number of bytes asked of the selected source at curPos
ReadRequest(sz, curPos) ==
    LET prefixSizes == NewMultiReader(0, sz).prefixSizes
        remainInReader == prefixSizes[SourceAt(sz, curPos).curReaderIdx + 1] - curPos
    IN Min(bufferSize, remainInReader)

consumePendingSeek(mm, p) ==
    [ m  |-> [ mm EXCEPT !.pfNeedSeek = FALSE ],
      pf |-> [ p EXCEPT !.curPos = mm.pfPos, !.curReaderIdx = -1, !.needSeek = TRUE ] ]

\* lines 396-403: the empty-block check between the seek and the read
PfBeforeRead(mm, p) ==
    LET remainInReader == mm.prefixSizes[p.curReaderIdx + 1] - p.curPos
    IN IF remainInReader = 0
       THEN [ p EXCEPT !.curPos = mm.prefixSizes[p.curReaderIdx + 1],
                       !.curReaderIdx = -1, !.needSeek = TRUE, !.pc = "top" ]
       ELSE [ p EXCEPT !.pc = "read" ]

\* a top of the loop without the wait for a free slot
PfTopSectionNoBackpressure(mm, p) ==
    IF mm.closed THEN [ m |-> mm, pf |-> [ p EXCEPT !.pc = "defer" ] ]
    ELSE LET c  == IF mm.pfNeedSeek THEN consumePendingSeek(mm, p) ELSE [ m |-> mm, pf |-> p ]
             m1 == c.m
             p1 == c.pf
         IN IF p1.curPos >= m1.totalSize
            THEN [ m  |-> Broadcast([ m1 EXCEPT !.prefetchErr = IF @ = "nil" THEN "EOF" ELSE @ ]),
                   pf |-> [ p1 EXCEPT !.pc = "defer" ] ]
            ELSE LET idx == p1.curReaderIdx
                     reselect == idx < 0 \/ ~(m1.prefixSizes[idx] <= p1.curPos
                                              /\ p1.curPos < m1.prefixSizes[idx + 1])
                     found == { i \in 0..(NumReaders - 1) : m1.prefixSizes[i + 1] > p1.curPos }
                     p2 == IF reselect
                           THEN [ p1 EXCEPT !.curReaderIdx = SortSearch(NumReaders, found),
                                            !.needSeek = TRUE ]
                           ELSE p1
                 IN [ m  |-> m1,
                      pf |-> IF p2.needSeek THEN [ p2 EXCEPT !.pc = "seek" ]
                             ELSE PfBeforeRead(m1, p2) ]

\* lines 339-375: the critical section at the top of the loop
PfTopSection(mm, p) ==
    IF mm.closed THEN [ m |-> mm, pf |-> [ p EXCEPT !.pc = "defer" ] ]
    ELSE LET c  == IF mm.pfNeedSeek THEN consumePendingSeek(mm, p) ELSE [ m |-> mm, pf |-> p ]
             m1 == c.m
             p1 == c.pf
         IN IF p1.curPos >= m1.totalSize
            THEN [ m  |-> Broadcast([ m1 EXCEPT !.prefetchErr = IF @ = "nil" THEN "EOF" ELSE @ ]),
                   pf |-> [ p1 EXCEPT !.pc = "defer" ] ]
            ELSE IF m1.occupiedCnt = BuffersNum(m1)
            THEN [ m |-> Wait(m1, "pf"), pf |-> [ p1 EXCEPT !.pc = "wait" ] ]
            ELSE LET idx == p1.curReaderIdx
                     reselect == idx < 0 \/ ~(m1.prefixSizes[idx] <= p1.curPos
                                              /\ p1.curPos < m1.prefixSizes[idx + 1])
                     found == { i \in 0..(NumReaders - 1) : m1.prefixSizes[i + 1] > p1.curPos }
                     p2 == IF reselect
                           THEN [ p1 EXCEPT !.curReaderIdx = SortSearch(NumReaders, found),
                                            !.needSeek = TRUE ]
                           ELSE p1
                 IN [ m  |-> m1,
                      pf |-> IF p2.needSeek THEN [ p2 EXCEPT !.pc = "seek" ]
                             ELSE PfBeforeRead(m1, p2) ]

\* a section that leaves the loop on a failed reader.Seek without publishing it
PfSeekSectionSilentExit(mm, p, seekErr) ==
    IF mm.closed THEN [ m |-> mm, pf |-> [ p EXCEPT !.pc = "defer" ] ]
    ELSE IF seekErr # "nil"
    THEN [ m |-> mm, pf |-> [ p EXCEPT !.pc = "defer" ] ]
    ELSE [ m |-> mm, pf |-> PfBeforeRead(mm, [ p EXCEPT !.needSeek = FALSE ]) ]

\* lines 381-393: the critical section after reader.Seek returned seekErr
PfSeekSection(mm, p, seekErr) ==
    IF mm.closed THEN [ m |-> mm, pf |-> [ p EXCEPT !.pc = "defer" ] ]
    ELSE IF seekErr # "nil"
    THEN [ m |-> Broadcast([ mm EXCEPT !.prefetchErr = seekErr ]),
           pf |-> [ p EXCEPT !.pc = "defer" ] ]
    ELSE [ m |-> mm, pf |-> PfBeforeRead(mm, [ p EXCEPT !.needSeek = FALSE ]) ]

\* a section that appends the block it has read although a seek is pending
PfReadSectionKeepsInFlight(mm, p, buf, readErr) ==
    IF mm.closed THEN [ m |-> mm, pf |-> [ p EXCEPT !.pc = "defer" ] ]
    ELSE LET n  == Len(buf)
             m1 == IF n > 0
                   THEN Broadcast([ mm EXCEPT !.buffers[mm.tailIdx] = buf,
                                              !.tailIdx = (@ + 1) % BuffersNum(mm),
                                              !.occupiedCnt = @ + 1 ])
                   ELSE mm
         IN IF mm.pfNeedSeek
            THEN LET c == consumePendingSeek(m1, p)
                 IN [ m |-> c.m, pf |-> [ c.pf EXCEPT !.pc = "top" ] ]
            ELSE [ m |-> m1, pf |-> [ p EXCEPT !.curPos = @ + n, !.pc = "top" ] ]

\* a section that takes the io.EOF of any source for the end of the stream
PfReadSectionEOFAnywhere(mm, p, buf, readErr) ==
    IF mm.closed THEN [ m |-> mm, pf |-> [ p EXCEPT !.pc = "defer" ] ]
    ELSE IF mm.pfNeedSeek
    THEN LET c == consumePendingSeek(mm, p)
         IN [ m |-> c.m, pf |-> [ c.pf EXCEPT !.pc = "top" ] ]
    ELSE LET n  == Len(buf)
             m1 == IF n > 0
                   THEN Broadcast([ mm EXCEPT !.buffers[mm.tailIdx] = buf,
                                              !.tailIdx = (@ + 1) % BuffersNum(mm),
                                              !.occupiedCnt = @ + 1 ])
                   ELSE mm
             p1 == [ p EXCEPT !.curPos = @ + n ]
         IN IF readErr = "nil" THEN [ m |-> m1, pf |-> [ p1 EXCEPT !.pc = "top" ] ]
            ELSE IF readErr = "EOF"
            THEN [ m  |-> Broadcast([ m1 EXCEPT !.prefetchErr =
                                           IF @ = "nil" THEN "EOF" ELSE @ ]),
                   pf |-> [ p1 EXCEPT !.pc = "defer" ] ]
            ELSE [ m  |-> Broadcast([ m1 EXCEPT !.prefetchErr = readErr ]),
                   pf |-> [ p1 EXCEPT !.pc = "defer" ] ]

\* lines 408-458: the critical section after reader.Read returned (n, readErr)
\* with the bytes buf
PfReadSection(mm, p, buf, readErr) ==
    IF mm.closed THEN [ m |-> mm, pf |-> [ p EXCEPT !.pc = "defer" ] ]
    ELSE IF mm.pfNeedSeek
    THEN LET c == consumePendingSeek(mm, p)
         IN [ m |-> c.m, pf |-> [ c.pf EXCEPT !.pc = "top" ] ]
    ELSE LET n  == Len(buf)
             m1 == IF n > 0
                   THEN Broadcast([ mm EXCEPT !.buffers[mm.tailIdx] = buf,
                                              !.tailIdx = (@ + 1) % BuffersNum(mm),
                                              !.occupiedCnt = @ + 1 ])
                   ELSE mm
             p1 == [ p EXCEPT !.curPos = @ + n ]
         IN IF readErr = "nil" THEN [ m |-> m1, pf |-> [ p1 EXCEPT !.pc = "top" ] ]
            ELSE IF readErr = "EOF"
            THEN IF p1.curPos >= m1.totalSize
                 THEN [ m  |-> Broadcast([ m1 EXCEPT !.prefetchErr =
                                                IF @ = "nil" THEN "EOF" ELSE @ ]),
                        pf |-> [ p1 EXCEPT !.pc = "defer" ] ]
                 ELSE [ m  |-> m1,
                        pf |-> [ p1 EXCEPT
                                  !.curPos = IF @ < m1.prefixSizes[p1.curReaderIdx + 1]
                                             THEN m1.prefixSizes[p1.curReaderIdx + 1] ELSE @,
                                  !.curReaderIdx = -1,
                                  !.needSeek = TRUE,
                                  !.pc = "top" ] ]
            ELSE [ m  |-> Broadcast([ m1 EXCEPT !.prefetchErr = readErr ]),
                   pf |-> [ p1 EXCEPT !.pc = "defer" ] ]

\* ---- actions: the prefetch goroutine --------------------------------------
Running == ~panicked /\ last.op = "none"

\* one pass through the top of the loop; a goroutine in cond.Wait takes it once
\* a Broadcast has removed it from the notify list (Wait returns, Unlock, continue)
PfTop ==
    /\ Running
    /\ pf.pc = "top" \/ (pf.pc = "wait" /\ "pf" \notin m.cond)
    /\ LET r == PfTopSection(m, pf)
       IN m' = r.m /\ pf' = r.pf
    /\ UNCHANGED <<readers, exited, chans, cons, clo, last, hist, panicked>>

\* a seek that hands the source the position in the whole stream
PfSeekToStreamPosition ==
    /\ Running
    /\ pf.pc = "seek"
    /\ \E seekErr \in SourceSeekErrs :
         LET i == pf.curReaderIdx
             localOffset == pf.curPos
             r == PfSeekSection(m, pf, seekErr)
         IN /\ readers' = [ readers EXCEPT
                              ![i].pos = IF seekErr = "nil" THEN localOffset ELSE @ ]
            /\ m' = r.m
            /\ pf' = r.pf
            /\ hist' = [ hist EXCEPT
                           !.faults = IF seekErr = "nil" THEN @ ELSE @ + 1,
                           !.usk = IF hist.kind # "out" THEN @
                                   ELSE IF /\ m.prefixSizes[i] <= hist.floor
                                           /\ hist.floor < m.prefixSizes[i + 1]
                                           /\ localOffset = hist.floor - m.prefixSizes[i]
                                        THEN "ok" ELSE "other" ]
    /\ UNCHANGED <<exited, chans, cons, clo, last, panicked>>

\* reader.Seek(localOffset, io.SeekStart) without the lock, then lines 381-393
PfSeek ==
    /\ Running
    /\ pf.pc = "seek"
    /\ \E seekErr \in SourceSeekErrs :
         LET i == pf.curReaderIdx
             localOffset == pf.curPos - m.prefixSizes[i]
             r == PfSeekSection(m, pf, seekErr)
         IN /\ readers' = [ readers EXCEPT
                              ![i].pos = IF seekErr = "nil" THEN localOffset ELSE @ ]
            /\ m' = r.m
            /\ pf' = r.pf
            /\ hist' = [ hist EXCEPT
                           !.faults = IF seekErr = "nil" THEN @ ELSE @ + 1,
                           !.usk = IF hist.kind # "out" THEN @
                                   ELSE IF /\ m.prefixSizes[i] <= hist.floor
                                           /\ hist.floor < m.prefixSizes[i + 1]
                                           /\ localOffset = hist.floor - m.prefixSizes[i]
                                        THEN "ok" ELSE "other" ]
    /\ UNCHANGED <<exited, chans, cons, clo, last, panicked>>

\* reader.Read(buf) without the lock, then lines 408-458
PfRead ==
    /\ Running
    /\ pf.pc = "read"
    /\ LET i == pf.curReaderIdx
           remainInReader == m.prefixSizes[i + 1] - pf.curPos
           toRead == Min(bufferSize, remainInReader)
       IN \E res \in SourceReadResults(readers[i], toRead) :
            LET buf == Bytes(m.prefixSizes[i] + readers[i].pos, res.n)
                r == PfReadSection(m, pf, buf, res.err)
            IN /\ readers' = [ readers EXCEPT ![i].pos = @ + res.n ]
               /\ m' = r.m
               /\ pf' = r.pf
               /\ hist' = LET kept == ~m.closed /\ ~m.pfNeedSeek
                              IN [ hist EXCEPT
                                     !.faults = IF res.err = "readErr" THEN @ + 1 ELSE @,
                                     !.kind = IF kept THEN "none" ELSE @,
                                     !.usk = IF kept THEN "no" ELSE @,
                                     !.urd = IF kept \/ hist.kind = "none" THEN "none"
                                             ELSE "dropped" ]
    /\ UNCHANGED <<exited, chans, cons, clo, last, panicked>>

\* the deferred function, lines 327-330; close(m.prefetchDone) is left to run
PfDefer ==
    /\ Running
    /\ pf.pc = "defer"
    /\ m' = Broadcast([ m EXCEPT !.prefetchStarted = FALSE ])
    /\ exited' = exited \cup { pf.id }
    /\ pf' = PfIdle
    /\ UNCHANGED <<readers, chans, cons, clo, last, hist, panicked>>

\* line 331: close(m.prefetchDone), reading the field as it is now; closing a
\* closed channel panics
PfCloseDone ==
    /\ Running
    /\ \E g \in exited :
         /\ exited' = exited \ { g }
         /\ IF m.prefetchDone \in chans.closed
            THEN panicked' = TRUE /\ UNCHANGED chans
            ELSE /\ chans' = [ chans EXCEPT !.closed = @ \cup { m.prefetchDone } ]
                 /\ UNCHANGED panicked
    /\ UNCHANGED <<m, readers, pf, cons, clo, last, hist>>

\* ---- actions: the consumer ------------------------------------------------
ReadReturns(len, start, buf, err) ==
    [ NoCall EXCEPT !.op = "Read", !.len = len, !.start = start, !.buf = buf, !.err = err ]

\* the Read loop from its top until Read returns or waits
ReadRun(mm, len, buf, start) ==
    LET r == ReadLoop(mm, len, buf)
    IN /\ m' = r.m
       /\ IF r.wait
          THEN /\ cons' = [ pc |-> "wait", len |-> len, buf |-> r.buf, start |-> start ]
               /\ UNCHANGED last
          ELSE /\ cons' = ConsIdle
               /\ last' = ReadReturns(len, start, r.buf, r.err)

\* a Read that starts the prefetcher before it looks at the end of the stream
ReadCallStartsAtEOF ==
    /\ Running
    /\ cons.pc = "idle"
    /\ hist.calls < MaxCalls
    /\ hist' = [ hist EXCEPT !.calls = @ + 1 ]
    /\ \E len \in 0..MaxReadLen :
         IF len = 0
         THEN /\ last' = ReadReturns(0, m.absPos, <<>>, "nil")
              /\ UNCHANGED <<m, readers, pf, exited, chans, cons, clo, panicked>>
         ELSE IF m.closed
         THEN /\ last' = ReadReturns(len, m.absPos, <<>>, "ErrClosedPipe")
              /\ UNCHANGED <<m, readers, pf, exited, chans, cons, clo, panicked>>
         ELSE IF ~m.prefetchStarted
         THEN /\ chans.made < MaxLaunch
              /\ chans' = [ chans EXCEPT !.made = @ + 1 ]
              /\ pf' = [ PfIdle EXCEPT !.pc = "top", !.id = chans.made + 1 ]
              /\ ReadRun(startPrefetchLocked(m, chans.made + 1), len, <<>>, m.absPos)
              /\ UNCHANGED <<readers, exited, clo, panicked>>
         ELSE /\ ReadRun(m, len, <<>>, m.absPos)
              /\ UNCHANGED <<readers, pf, exited, chans, clo, panicked>>

\* a Read that treats an empty buffer like any other
ReadCallNoEmptyCase ==
    /\ Running
    /\ cons.pc = "idle"
    /\ hist.calls < MaxCalls
    /\ hist' = [ hist EXCEPT !.calls = @ + 1 ]
    /\ \E len \in 0..MaxReadLen :
         IF m.closed
         THEN /\ last' = ReadReturns(len, m.absPos, <<>>, "ErrClosedPipe")
              /\ UNCHANGED <<m, readers, pf, exited, chans, cons, clo, panicked>>
         ELSE IF m.absPos = m.totalSize
         THEN /\ last' = ReadReturns(len, m.absPos, <<>>, "EOF")
              /\ UNCHANGED <<m, readers, pf, exited, chans, cons, clo, panicked>>
         ELSE IF ~m.prefetchStarted
         THEN /\ chans.made < MaxLaunch
              /\ chans' = [ chans EXCEPT !.made = @ + 1 ]
              /\ pf' = [ PfIdle EXCEPT !.pc = "top", !.id = chans.made + 1 ]
              /\ ReadRun(startPrefetchLocked(m, chans.made + 1), len, <<>>, m.absPos)
              /\ UNCHANGED <<readers, exited, clo, panicked>>
         ELSE /\ ReadRun(m, len, <<>>, m.absPos)
              /\ UNCHANGED <<readers, pf, exited, chans, clo, panicked>>

\* Read(p) with len(p) = len, lines 165-180 and then the loop
ReadCall ==
    /\ Running
    /\ cons.pc = "idle"
    /\ hist.calls < MaxCalls
    /\ hist' = [ hist EXCEPT !.calls = @ + 1 ]
    /\ \E len \in 0..MaxReadLen :
         IF len = 0
         THEN /\ last' = ReadReturns(0, m.absPos, <<>>, "nil")
              /\ UNCHANGED <<m, readers, pf, exited, chans, cons, clo, panicked>>
         ELSE IF m.closed
         THEN /\ last' = ReadReturns(len, m.absPos, <<>>, "ErrClosedPipe")
              /\ UNCHANGED <<m, readers, pf, exited, chans, cons, clo, panicked>>
         ELSE IF m.absPos = m.totalSize
         THEN /\ last' = ReadReturns(len, m.absPos, <<>>, "EOF")
              /\ UNCHANGED <<m, readers, pf, exited, chans, cons, clo, panicked>>
         ELSE IF ~m.prefetchStarted
         THEN /\ chans.made < MaxLaunch
              /\ chans' = [ chans EXCEPT !.made = @ + 1 ]
              /\ pf' = [ PfIdle EXCEPT !.pc = "top", !.id = chans.made + 1 ]
              /\ ReadRun(startPrefetchLocked(m, chans.made + 1), len, <<>>, m.absPos)
              /\ UNCHANGED <<readers, exited, clo, panicked>>
         ELSE /\ ReadRun(m, len, <<>>, m.absPos)
              /\ UNCHANGED <<readers, pf, exited, chans, clo, panicked>>

\* cond.Wait of Read returns after a Broadcast; the loop continues
ReadWake ==
    /\ Running
    /\ cons.pc = "wait"
    /\ "cons" \notin m.cond
    /\ ReadRun(m, cons.len, cons.buf, cons.start)
    /\ UNCHANGED <<readers, pf, exited, chans, clo, hist, panicked>>

\* a Seek that cannot take the lock while a source call of the prefetcher or
\* the wait of Close is under way
SeekCallBehindSourceIO ==
    /\ Running
    /\ pf.pc \notin { "seek", "read" }
    /\ clo.pc # "waitDone"
    /\ cons.pc = "idle"
    /\ \E offset \in (-MaxSeekOffset)..MaxSeekOffset, whence \in Whences :
         LET r == Seek(m, offset, whence)
         IN /\ hist.calls < MaxCalls
            /\ m' = r.m
            /\ last' = [ NoCall EXCEPT !.op = "Seek", !.start = m.absPos,
                                       !.err = r.err, !.pos = r.pos ]
            /\ hist' = IF r.err # "nil" THEN [ hist EXCEPT !.calls = @ + 1 ]
                        ELSE [ hist EXCEPT
                                 !.floor = r.pos,
                                 !.calls = @ + 1,
                                 !.kind = IF r.pos \in CachedBytes(m) THEN "in" ELSE "out",
                                 !.usk = "no",
                                 !.urd = "none" ]
    /\ UNCHANGED <<readers, pf, exited, chans, cons, clo, panicked>>

SeekCall ==
    /\ Running
    /\ cons.pc = "idle"
    /\ \E offset \in (-MaxSeekOffset)..MaxSeekOffset, whence \in Whences :
         LET r == Seek(m, offset, whence)
         IN /\ hist.calls < MaxCalls
            /\ m' = r.m
            /\ last' = [ NoCall EXCEPT !.op = "Seek", !.start = m.absPos,
                                       !.err = r.err, !.pos = r.pos ]
            /\ hist' = IF r.err # "nil" THEN [ hist EXCEPT !.calls = @ + 1 ]
                        ELSE [ hist EXCEPT
                                 !.floor = r.pos,
                                 !.calls = @ + 1,
                                 !.kind = IF r.pos \in CachedBytes(m) THEN "in" ELSE "out",
                                 !.usk = "no",
                                 !.urd = "none" ]
    /\ UNCHANGED <<readers, pf, exited, chans, cons, clo, panicked>>

\* ---- actions: Close -------------------------------------------------------
\* errors.Join(err, multiErr): the errors wrapped, newest first
Join(err, multiErr) == <<err>> \o multiErr

\* a closing loop that returns at the first source whose Close fails
RECURSIVE CloseReadersStopAtFirst(_, _, _, _)
CloseReadersStopAtFirst(rs, i, multiErr, F) ==
    IF i = Cardinality(DOMAIN rs) THEN [ readers |-> rs, multiErr |-> multiErr ]
    ELSE IF i \in F
    THEN [ readers  |-> [ rs EXCEPT ![i].closeCalls = @ + 1, ![i].closeFailed = TRUE ],
           multiErr |-> Join(i, multiErr) ]
    ELSE CloseReadersStopAtFirst([ rs EXCEPT ![i].closeCalls = @ + 1, ![i].closeFailed = FALSE ],
                                 i + 1, multiErr, F)

\* lines 282-288: r.Close() on the readers from index i on; the sources in F fail
RECURSIVE CloseReaders(_, _, _, _)
CloseReaders(rs, i, multiErr, F) ==
    IF i = Cardinality(DOMAIN rs) THEN [ readers |-> rs, multiErr |-> multiErr ]
    ELSE CloseReaders([ rs EXCEPT ![i].closeCalls = @ + 1, ![i].closeFailed = i \in F ],
                      i + 1, IF i \in F THEN Join(i, multiErr) ELSE multiErr, F)

\* lines 282-293: the sources are closed and Close returns the aggregate, or nil
CloseFinish ==
    \E F \in CloseFailures :
        LET r == CloseReaders(readers, 0, <<>>, F)
        IN /\ readers' = r.readers
           /\ last' = [ NoCall EXCEPT !.op = "Close", !.first = TRUE, !.errs = r.multiErr,
                                      !.err = IF r.multiErr # <<>> THEN "error when closing"
                                              ELSE "nil" ]

\* a Close without the early return on m.closed
CloseCallUnguarded ==
    /\ Running
    /\ clo.pc = "idle"
    /\ hist.calls < MaxCalls
    /\ hist' = [ hist EXCEPT !.calls = @ + 1 ]
    /\ m' = Broadcast([ m EXCEPT !.closed = TRUE ])
    /\ IF m.prefetchDone # 0
       THEN /\ clo' = [ clo EXCEPT !.done = m.prefetchDone, !.pc = "waitDone" ]
            /\ UNCHANGED <<readers, last>>
       ELSE /\ clo' = [ clo EXCEPT !.returned = TRUE ]
            /\ CloseFinish
    /\ UNCHANGED <<pf, exited, chans, cons, panicked>>

\* Close, lines 267-280: up to the wait for the prefetcher, and to the end when
\* there is nothing to wait for
CloseCall ==
    /\ Running
    /\ clo.pc = "idle"
    /\ hist.calls < MaxCalls
    /\ hist' = [ hist EXCEPT !.calls = @ + 1 ]
    /\ IF m.closed
       THEN /\ last' = [ NoCall EXCEPT !.op = "Close" ]
            /\ UNCHANGED <<m, clo, readers>>
       ELSE /\ m' = Broadcast([ m EXCEPT !.closed = TRUE ])
            /\ IF m.prefetchDone # 0
               THEN /\ clo' = [ clo EXCEPT !.done = m.prefetchDone, !.pc = "waitDone" ]
                    /\ UNCHANGED <<readers, last>>
               ELSE /\ clo' = [ clo EXCEPT !.returned = TRUE ]
                    /\ CloseFinish
    /\ UNCHANGED <<pf, exited, chans, cons, panicked>>

\* <-done, then lines 282-293
CloseWaitDone ==
    /\ Running
    /\ clo.pc = "waitDone"
    /\ clo.done \in chans.closed
    /\ clo' = [ clo EXCEPT !.pc = "idle", !.done = 0, !.returned = TRUE ]
    /\ CloseFinish
    /\ UNCHANGED <<m, pf, exited, chans, cons, hist, panicked>>

\* ---- actions: Size --------------------------------------------------------
Size(mm) == mm.totalSize

\* a Size that asks every source for its size again
SizeCallRequeries ==
    /\ Running
    /\ cons.pc = "idle"
    /\ readers' = [ i \in DOMAIN readers |-> [ readers[i] EXCEPT !.sizeCalls = @ + 1 ] ]
    /\ last' = [ NoCall EXCEPT !.op = "Size",
                               !.pos = SumTo([ i \in 1..NumReaders |-> readers[i - 1].size ],
                                             NumReaders) ]
    /\ UNCHANGED <<m, pf, exited, chans, cons, clo, hist, panicked>>

\* Size(), lines 297-299, called by the consumer between its other calls
SizeCall ==
    /\ Running
    /\ cons.pc = "idle"
    /\ last' = [ NoCall EXCEPT !.op = "Size", !.pos = Size(m) ]
    /\ UNCHANGED <<m, readers, pf, exited, chans, cons, clo, hist, panicked>>

\* the returning call has returned
Return ==
    /\ ~panicked
    /\ last.op # "none"
    /\ last' = NoCall
    /\ UNCHANGED <<m, readers, pf, exited, chans, cons, clo, hist, panicked>>

Next ==
    \/ PfTop
    \/ PfSeek
    \/ PfRead
    \/ PfDefer
    \/ PfCloseDone
    \/ ReadCall
    \/ ReadWake
    \/ SeekCall
    \/ SizeCall
    \/ CloseCall
    \/ CloseWaitDone
    \/ Return

Spec == Init /\ [][Next]_vars

\* Scheduling: a call on a source returns, and sync.Mutex lets no goroutine
\* starve, so the prefetch goroutine takes its next step however often the
\* client's calls take the lock in between (here: however often a returning
\* call disables the step for a moment); likewise a goroutine woken from
\* cond.Wait or from <-done runs on, and a call that has its result returns.
\* Whether the client calls Read, Seek, Size or Close at all is left open.
Fairness ==
    /\ SF_vars(PfTop)
    /\ SF_vars(PfSeek)
    /\ SF_vars(PfRead)
    /\ SF_vars(PfDefer)
    /\ SF_vars(PfCloseDone)
    /\ SF_vars(ReadWake)
    /\ SF_vars(CloseWaitDone)
    /\ WF_vars(Return)

FairSpec == Init /\ [][Next]_vars /\ Fairness

\* ---- claims -------------------------------------------------------------
\* C1: over sources that never fail, a Read entered with the cursor at p that
\* returns n bytes returns the bytes [p, p+n) of the concatenated stream.
C1_ReadReturnsStream ==
    (last.op = "Read" /\ hist.faults = 0) => last.buf = Bytes(last.start, Len(last.buf))

\* C2: after a successful Seek to t, no Read up to the next Seek delivers a
\* byte of an absolute offset below t.
C2_NoByteBelowSeekTarget ==
    \A b \in Range(last.buf) \cup Range(cons.buf) : b >= hist.floor

\* C3: once Close has invoked close on a source, the prefetch task is not in,
\* and does not enter, an underlying seek or read.
C3_NoSourceIOAfterClose ==
    SomeSourceClosed => pf.pc \notin { "seek", "read" }

UnderlyingErrs == { "readErr", "seekErr" }

C5_LastBytesWithNil ==
    ( /\ last.op = "Read"
      /\ hist.faults = 0
      /\ last.buf # <<>>
      /\ last.len > m.totalSize - last.start
      /\ m.absPos = m.totalSize ) => last.err = "nil"

\* C6: with Close returned and every prefetch goroutine gone, nothing is left
\* to wake a Read, so no Read is still in cond.Wait.
C6_CloseUnblocksRead ==
    (clo.returned /\ pf.pc = "none" /\ exited = {}) => ~(cons.pc = "wait" /\ "cons" \in m.cond)

\* C7 as stated: a Read or Seek called after Close has returned returns at once,
\* Read with no bytes and io.ErrClosedPipe, Seek with io.ErrClosedPipe.
C7_ClosedPipeAfterClose ==
    [][ (clo.returned /\ cons.pc = "idle" /\ last'.op \in { "Read", "Seek" }) =>
            /\ last'.err = "ErrClosedPipe"
            /\ last'.buf = <<>>
            /\ cons'.pc = "idle" ]_vars

\* C7 amended: the same for a Read with a non-empty buffer (a zero-length Read
\* returns (0, nil), closed or not) and for every Seek.
C7_ClosedPipeAfterCloseNonEmpty ==
    [][ (clo.returned /\ cons.pc = "idle") =>
            /\ cons' = cons
            /\ ( \/ last'.op = "Read" /\ last'.len > 0
                 \/ last'.op = "Seek" ) =>
                    /\ last'.err = "ErrClosedPipe"
                    /\ last'.buf = <<>>
                    /\ m' = m ]_vars

\* a non-empty Read returns after Close has returned, the prefetcher having run
C7_Witness ==
    /\ clo.returned
    /\ last.op = "Read" /\ last.len > 0 /\ last.err = "ErrClosedPipe"
    /\ chans.made > 0

\* C8: over any sequence of Close calls every source's Close is called at most
\* once, and exactly once when the first Close has returned; a Close that finds
\* the composite closed returns nil and calls no source.
C8_CloseIdempotent ==
    /\ \A i \in DOMAIN readers : readers[i].closeCalls <= 1
    /\ clo.returned => \A i \in DOMAIN readers : readers[i].closeCalls = 1
    /\ (last.op = "Close" /\ ~last.first) => (last.err = "nil" /\ last.errs = <<>>)
    /\ (last.op = "Close" /\ last.first) => (last.err # "nil" <=> last.errs # <<>>)

\* a later Close returns after a first Close that met failing sources
C8_Witness ==
    /\ last.op = "Close" /\ ~last.first
    /\ clo.returned
    /\ \E i \in DOMAIN readers : readers[i].closeFailed

\* C9: the first Close has called Close on every source, in declared order (the
\* wrapped errors, newest first, are in decreasing source order); it returns nil
\* iff no source failed and otherwise wraps exactly the errors of the failed sources.
C9_CloseAggregates ==
    (last.op = "Close" /\ last.first) =>
        /\ \A i \in DOMAIN readers : readers[i].closeCalls = 1
        /\ Range(last.errs) = { i \in DOMAIN readers : readers[i].closeFailed }
        /\ \A j, k \in DOMAIN last.errs : j < k => last.errs[j] > last.errs[k]
        /\ last.err = "nil" <=> \A i \in DOMAIN readers : ~readers[i].closeFailed

\* the first Close returns with two failed sources, a third closed after them
C9_Witness ==
    /\ last.op = "Close" /\ last.first
    /\ Len(last.errs) = 2
    /\ \E i \in DOMAIN readers : ~readers[i].closeFailed /\ i > last.errs[1]

\* C10: a Seek that fails on its whence or its range changes nothing: the
\* struct with cursor, window, terminal signal, producer position, pending-seek
\* flag and notify list, the prefetcher and the sources.
C10_FailedSeekNoEffect ==
    [][ (last'.op = "Seek" /\ last'.err \in { "invalid whence", "seek out of range" }) =>
            /\ m' = m
            /\ UNCHANGED <<readers, pf, exited, chans, cons, clo, panicked>> ]_vars

\* an out-of-range Seek has failed with blocks cached and the producer waiting
C10_Witness ==
    /\ last.op = "Seek" /\ last.err = "seek out of range"
    /\ m.occupiedCnt > 0
    /\ "pf" \in m.cond

\* C11: in every state the composite reaches, with whatever the window holds,
\* a Seek on the open composite with a valid whence and a target (0, the cursor
\* or totalSize, plus offset) in [0, totalSize] succeeds, totalSize included;
\* a successful Seek returns its target and leaves the cursor on it, so that
\* Seek(0, SeekCurrent) right after it returns the same position; and a Seek
\* that has just returned ok has left the cursor on the position it returned.
C11_SeekReturnsTarget ==
    /\ \A whence \in Whences, offset \in (-MaxSeekOffset)..MaxSeekOffset :
          LET base == IF whence = SeekStart THEN 0
                      ELSE IF whence = SeekCurrent THEN m.absPos
                      ELSE m.totalSize
              target == base + offset
              r == Seek(m, offset, whence)
              again == Seek(r.m, 0, SeekCurrent)
          IN /\ ( /\ ~m.closed
                  /\ whence \in { SeekStart, SeekCurrent, SeekEnd }
                  /\ target >= 0 /\ target <= m.totalSize ) => r.err = "nil"
             /\ r.err = "nil" =>
                   /\ r.pos = target /\ r.m.absPos = target
                   /\ again.err = "nil" /\ again.pos = target
    /\ (last.op = "Seek" /\ last.err = "nil") => m.absPos = last.pos

\* a Seek has returned the position the cursor was on, inside the stream, with
\* blocks in the window
C11_Witness ==
    /\ last.op = "Seek" /\ last.err = "nil"
    /\ last.pos = last.start /\ last.pos > 0 /\ last.pos < m.totalSize
    /\ m.occupiedCnt > 0

\* C12: a Read with a non-empty buffer called on the open composite with the
\* cursor on totalSize returns (0, io.EOF) and changes nothing: no prefetcher
\* is started, no channel made, no source touched.
C12_ReadAtEndIsEOF ==
    [][ ( /\ cons.pc = "idle"
          /\ last'.op = "Read" /\ last'.len > 0
          /\ ~m.closed
          /\ m.absPos = m.totalSize ) =>
            /\ last'.err = "EOF" /\ last'.buf = <<>>
            /\ UNCHANGED <<m, readers, pf, exited, chans, cons>> ]_vars

\* such a Read has returned right after a Seek to the end, with no prefetcher
\* running
C12_Witness ==
    /\ last.op = "Read" /\ last.len > 0 /\ last.err = "EOF" /\ last.buf = <<>>
    /\ hist.floor = m.totalSize /\ last.start = m.totalSize
    /\ ~m.closed
    /\ ~m.prefetchStarted

\* C13: a Read with an empty buffer returns (0, nil) and changes nothing:
\* cursor, window, prefetchErr, the prefetcher and its channels, the sources.
C13_EmptyReadNoEffect ==
    [][ (cons.pc = "idle" /\ last'.op = "Read" /\ last'.len = 0) =>
            /\ last'.err = "nil" /\ last'.buf = <<>>
            /\ UNCHANGED <<m, readers, pf, exited, chans, cons, clo, panicked>> ]_vars

\* an empty Read has returned inside the stream of the open composite with no
\* prefetcher started
C13_Witness ==
    /\ last.op = "Read" /\ last.len = 0
    /\ ~m.closed /\ ~m.prefetchStarted /\ m.absPos < m.totalSize

\* C14: every source's Size has been called once, by NewMultiReader, whatever
\* Read, Seek, Size, Close and the prefetcher have done since, and Size returns
\* the sum of the sources' sizes.
C14_SizeCachedAtConstruction ==
    /\ \A i \in DOMAIN readers : readers[i].sizeCalls = 1
    /\ last.op = "Size" =>
          last.pos = SumTo([ i \in 1..NumReaders |-> readers[i - 1].size ], NumReaders)

\* Size has returned after the prefetcher ran and the composite was closed
C14_Witness ==
    /\ last.op = "Size" /\ last.pos > 0
    /\ chans.made > 0
    /\ SomeSourceClosed

\* C15: after a successful Seek whose target is among the cached bytes, the
\* prefetcher issues no reader.Seek before the next reader.Read.
C15_NoSourceSeekAfterSeekInWindow ==
    [][ (pf.pc = "seek" /\ pf'.pc # "seek") =>
            ~(hist.kind = "in" /\ hist.urd = "none") ]_vars

\* C16: after a successful Seek whose target, inside the stream, is not among
\* the cached bytes, the first reader.Read whose result the prefetcher keeps
\* comes after a reader.Seek, issued since that Seek, on the source holding the
\* target, to the target's offset in that source.
C16_NextSourceReadAfterNewSeek ==
    [][ ( /\ pf.pc = "read" /\ pf'.pc # "read"
          /\ hist.kind = "out" /\ hist'.kind = "none"
          /\ hist.floor < m.totalSize ) => hist.usk = "ok" ]_vars

\* C17: before the first non-empty Read no prefetcher exists and no source has
\* been moved, however many Seeks were made; a Seek changes neither the sources
\* nor the prefetcher; and a reader.Seek the prefetcher issues with no Seek
\* target pending is on the source holding the producer cursor, never on a
\* source that ends at or before the target of the last successful Seek.
C17_SeekIsLazy ==
    [][ /\ chans.made = 0 => (pf.pc = "none" /\ \A i \in DOMAIN readers : readers[i].pos = 0)
        /\ last'.op = "Seek" => UNCHANGED <<readers, pf, exited, chans>>
        /\ (pf.pc = "seek" /\ pf'.pc # "seek") =>
              LET i == pf.curReaderIdx
              IN /\ m.prefixSizes[i] <= pf.curPos /\ pf.curPos < m.prefixSizes[i + 1]
                 /\ ~m.pfNeedSeek => m.prefixSizes[i + 1] > hist.floor ]_vars

\* C18: on a run without Seek, whatever the sources' reads return: the bytes
\* of a reader.Read the prefetcher keeps are enqueued as a block, also when the
\* read returned an error with them; every Read returns the bytes of the stream
\* from the cursor it was entered with, so the consumer gets each byte once and
\* in order; and a Read returns the read error only with the window drained.
C18_BytesBeforeReadError ==
    [][ hist'.floor = -1 =>
          /\ last'.op = "Read" => last'.buf = Bytes(last'.start, Len(last'.buf))
          /\ (last'.op = "Read" /\ last'.err = "readErr") => m'.occupiedCnt = 0
          /\ (pf.pc = "read" /\ pf'.pc # "read" /\ ~m.closed /\ ~m.pfNeedSeek) =>
                LET i == pf.curReaderIdx
                    n == readers'[i].pos - readers[i].pos
                IN n > 0 =>
                     /\ m'.occupiedCnt = m.occupiedCnt + 1
                     /\ m'.buffers[m.tailIdx] = Bytes(m.prefixSizes[i] + readers[i].pos, n)
      ]_vars

\* C19: on the open composite, a reader.Seek that fails makes the prefetcher
\* publish the error and leave, enqueuing nothing; with the window empty, as it
\* is for the first block after the start or after a Seek out of the window,
\* the published error and the empty window stay until the consumer's next
\* call, and a non-empty Read called then, or waiting with no byte copied,
\* returns (0, that error).
C19_SeekErrorSurfaces ==
    [][ /\ (pf.pc = "seek" /\ hist'.faults > hist.faults /\ ~m.closed) =>
              /\ m'.prefetchErr = "seekErr"
              /\ m'.buffers = m.buffers /\ m'.occupiedCnt = m.occupiedCnt
              /\ pf'.pc = "defer"
        /\ ( /\ m.prefetchErr = "seekErr" /\ m.occupiedCnt = 0 /\ ~m.closed
             /\ pf.pc \in { "defer", "none" }
             /\ last'.op \notin { "Read", "Seek", "Close" }
             /\ clo'.pc = clo.pc ) =>
              (m'.prefetchErr = "seekErr" /\ m'.occupiedCnt = 0)
        /\ ( /\ m.prefetchErr = "seekErr" /\ m.occupiedCnt = 0 /\ ~m.closed
             /\ m.absPos < m.totalSize
             /\ last'.op = "Read" /\ last'.len > 0
             /\ cons.buf = <<>> ) =>
              (last'.err = "seekErr" /\ last'.buf = <<>>)
      ]_vars

\* a Read has returned (0, the seek error) after a Seek that left the window
C19_Witness ==
    /\ last.op = "Read" /\ last.len > 0 /\ last.err = "seekErr" /\ last.buf = <<>>
    /\ hist.floor = last.start /\ hist.floor > 0
    /\ hist.kind = "out"

C21_EmptySourceSkipped ==
    /\ pf.pc \in { "seek", "read" } => readers[pf.curReaderIdx].size > 0
    /\ \A i \in DOMAIN readers : readers[i].size = 0 => readers[i].pos = 0
    /\ \A sz \in ZeroLengthLayouts :
          LET without == SelectSeq(sz, LAMBDA x : x > 0)
              a == NewMultiReader(0, sz)
              b == NewMultiReader(0, without)
          IN /\ a.totalSize = b.totalSize
             /\ \A p \in 0..(a.totalSize - 1) :
                   LET s == SourceAt(sz, p)
                       t == SourceAt(without, p)
                   IN /\ s.curReaderIdx < Len(sz)
                      /\ sz[s.curReaderIdx + 1] > 0
                      /\ Cardinality({ j \in 0..(s.curReaderIdx - 1) : sz[j + 1] > 0 })
                            = t.curReaderIdx
                      /\ s.localOffset = t.localOffset

\* the prefetcher has read the first source to its end and is about to seek the
\* source after the empty one
C21_Witness ==
    /\ pf.pc = "seek" /\ pf.curReaderIdx = 2
    /\ readers[1].size = 0
    /\ readers[0].pos = readers[0].size /\ readers[0].size > 0
    /\ m.occupiedCnt > 0

\* C22: a read that the prefetcher keeps, that does not fail and that returns
\* the last n > 0 bytes of its source (with nil or with io.EOF) enqueues those
\* bytes and puts the producer cursor at the end of the source; the prefetcher
\* then goes on (to the top of its loop) or, with the cursor at totalSize,
\* leaves with the terminal slot full. It enters a read without a seek only on
\* the source it was on, at that source's cursor. The terminal slot becomes
\* io.EOF only with the producer cursor at totalSize. With no Seek made and no
\* failing source, every Read returns the bytes at its cursor, in order.
C22_LastBytesThenNext ==
    [][ /\ ( /\ pf.pc = "read" /\ pf'.pc # "read"
             /\ ~m.closed /\ ~m.pfNeedSeek
             /\ hist'.faults = hist.faults ) =>
              LET i == pf.curReaderIdx
                  n == readers'[i].pos - readers[i].pos
              IN (n > 0 /\ readers'[i].pos = readers[i].size) =>
                    /\ m'.buffers[m.tailIdx] = Bytes(pf.curPos, n)
                    /\ m'.occupiedCnt = m.occupiedCnt + 1
                    /\ pf'.curPos = m.prefixSizes[i + 1]
                    /\ IF pf'.curPos = m.totalSize
                       THEN \/ pf'.pc = "top" /\ m'.prefetchErr = m.prefetchErr
                            \/ pf'.pc = "defer" /\ m'.prefetchErr # "nil"
                       ELSE pf'.pc = "top" /\ m'.prefetchErr = m.prefetchErr
        /\ (pf.pc \in { "top", "wait" } /\ pf'.pc = "read") =>
              LET i == pf'.curReaderIdx
              IN /\ i = pf.curReaderIdx
                 /\ readers[i].pos = pf'.curPos - m.prefixSizes[i]
                 /\ readers[i].pos < readers[i].size
        /\ (m.prefetchErr # "EOF" /\ m'.prefetchErr = "EOF") =>
              (pf.pc # "none" /\ pf'.curPos = m.totalSize)
        /\ (last'.op = "Read" /\ hist'.floor = -1 /\ hist'.faults = 0) =>
              /\ last'.buf = Bytes(last'.start, Len(last'.buf))
              /\ m'.absPos = last'.start + Len(last'.buf)
      ]_vars

\* with no Seek made, the first source has returned its last byte with io.EOF:
\* the byte is in the window and the prefetcher is at the top of its loop with
\* no source selected
C22_Witness ==
    /\ hist.floor = -1 /\ hist.faults = 0
    /\ pf.pc = "top" /\ pf.curReaderIdx = -1 /\ pf.needSeek
    /\ pf.curPos = m.prefixSizes[1]
    /\ readers[0].pos = readers[0].size /\ readers[0].size > 0
    /\ m.occupiedCnt = 1 /\ m.buffers[m.headIdx] = Bytes(0, readers[0].size)

\* C23: the consumer cursor absPos is within [0, totalSize] in every state.
C23_CursorInRange ==
    m.absPos >= 0 /\ m.absPos <= m.totalSize

\* C24: the occupied count never exceeds the number of slots and no block is
\* longer than bufferSize; the prefetcher
\* is in a seek or a read, whose block it may append, only with a slot free;
\* and while it is suspended for a slot the window is full, the composite is
\* open and no seek target is pending, so that only a release by the consumer,
\* a Seek out of the window or Close ends the suspension.
C24_WindowBounded ==
    /\ m.occupiedCnt >= 0 /\ m.occupiedCnt <= BuffersNum(m)
    /\ \A j \in DOMAIN m.buffers : Len(m.buffers[j]) <= bufferSize
    /\ pf.pc \in { "seek", "read" } => m.occupiedCnt < BuffersNum(m)
    /\ (pf.pc = "wait" /\ "pf" \in m.cond) =>
          /\ m.occupiedCnt = BuffersNum(m)
          /\ ~m.closed
          /\ ~m.pfNeedSeek

\* the prefetcher is suspended with every slot occupied
C24_Witness ==
    /\ pf.pc = "wait" /\ "pf" \in m.cond
    /\ m.occupiedCnt = BuffersNum(m)
    /\ pf.curPos < m.totalSize

\* C25: whenever the window is non-empty and the cursor is among the positions
\* the window stands for, headStart + consumedInHead equals absPos.
C25_HeadMatchesCursor ==
    (m.occupiedCnt > 0 /\ m.absPos \in WindowSpan(m)) =>
        m.headStart + m.consumedInHead = m.absPos

\* C26: in every state with no Read in progress, a Seek whose target is in a cached block after the head
\* block leaves the block holding the target as the head block, labelled by
\* headStart, with the blocks before it released: their slots emptied and the
\* occupied count lowered.
C26_SeekReleasesSkippedBlocks ==
    \A target \in 0..m.totalSize :
        LET r == Seek(m, target, SeekStart)
        IN ( /\ cons.pc = "idle" /\ ~m.closed
             /\ ~inHead(m, target) /\ seekWithinWindow(m, target).ok ) =>
              /\ r.err = "nil"
              /\ inHead(r.m, target)
              /\ r.m.headStart > m.headStart
              /\ r.m.occupiedCnt < m.occupiedCnt
              /\ r.m.buffers[m.headIdx] = <<>>

C29_RestartOnlyAfterReset ==
    [][ chans'.made # chans.made =>
            /\ chans'.made = chans.made + 1
            /\ cons.pc = "idle" /\ ~m.closed /\ m.absPos < m.totalSize
            /\ pf.pc = "none"
            /\ chans.made > 0 => m.prefetchErr = "nil"
      ]_vars

\* C30: when the prefetch goroutine runs its deferred exit, the running flag
\* is cleared and the terminal slot is full or the composite is closed; and the
\* done channel that an exited goroutine then closes is its own.
C30_ExitPublishes ==
    [][ /\ (pf.pc = "defer" /\ pf'.pc = "none") =>
              /\ ~m'.prefetchStarted
              /\ m'.prefetchErr # "nil" \/ m'.closed
        /\ \A g \in exited \ exited' : ~panicked' /\ g \in chans'.closed
      ]_vars

\* C31: when a reader.Read returns and finds a seek pending or the composite
\* closed, the block it has read is not appended: the slots, the counts and the
\* terminal slot stay as they were; and once the composite is closed no step
\* of the prefetcher appends a block or writes the terminal slot.
C31_InFlightBlockDropped ==
    [][ /\ (pf.pc = "read" /\ pf' # pf /\ (m.closed \/ m.pfNeedSeek)) =>
              /\ m'.buffers = m.buffers
              /\ m'.occupiedCnt = m.occupiedCnt
              /\ m'.tailIdx = m.tailIdx
              /\ m'.prefetchErr = m.prefetchErr
        /\ (m.closed /\ pf' # pf) =>
              /\ m'.buffers = m.buffers
              /\ m'.occupiedCnt = m.occupiedCnt
              /\ m'.prefetchErr = m.prefetchErr
      ]_vars

\* a read that was in flight when a Seek left the window has been dropped: the
\* window is still empty and the prefetcher is back at the top of its loop
C31_Witness ==
    /\ hist.urd = "dropped" /\ hist.kind = "out"
    /\ m.occupiedCnt = 0
    /\ pf.pc = "top" /\ pf.curPos = hist.floor
    /\ \E i \in DOMAIN readers : readers[i].pos > 0

C33_SinglePrefetcher ==
    /\ m.prefetchStarted <=> pf.pc # "none"
    /\ pf.pc # "none" => (pf.id = m.prefetchDone /\ pf.id = chans.made /\ pf.id \notin exited)
    /\ \A g \in exited : g < chans.made \/ pf.pc = "none"

\* a second prefetch goroutine is in a source read while the first one has
\* left its loop and has not closed its done channel yet
C33_Witness ==
    /\ pf.pc = "read" /\ pf.id = 2
    /\ 1 \in exited

\* C34: a Read that returns n bytes, with whatever status, leaves the cursor n
\* positions after the cursor it was called with; and the critical section in
\* which a Read returns n > 0 bytes with nil takes from the window only the
\* bytes it copies: every slot keeps its block or is emptied, the bytes left
\* unread in the window are those there were, in their order, less the bytes
\* copied, and the terminal slot and the tail are as before.
C34_ReadAdvancesByN ==
    [][ last'.op = "Read" =>
          /\ m'.absPos = last'.start + Len(last'.buf)
          /\ (last'.err = "nil" /\ last'.buf # <<>>) =>
                LET k == Len(last'.buf) - Len(cons.buf)
                IN /\ windowLen(m', 0) - m'.consumedInHead
                        = windowLen(m, 0) - m.consumedInHead - k
                   /\ \A j \in DOMAIN m.buffers :
                         m'.buffers[j] = m.buffers[j] \/ m'.buffers[j] = <<>>
                   /\ SubSeq(windowContent(m', 0), m'.consumedInHead + 1,
                             windowLen(m', 0))
                        = SubSeq(windowContent(m, 0), m.consumedInHead + k + 1,
                                 windowLen(m, 0))
                   /\ m'.tailIdx = m.tailIdx
                   /\ m'.prefetchErr = m.prefetchErr
      ]_vars

\* a Read of one byte has returned it with nil from a block of two bytes, the
\* other byte being left in the head block
C34_Witness ==
    /\ last.op = "Read" /\ last.err = "nil" /\ Len(last.buf) = 1
    /\ m.occupiedCnt > 0 /\ Len(m.buffers[m.headIdx]) = 2 /\ m.consumedInHead = 1
    /\ m.absPos = last.start + 1

\* C35: while the prefetcher is in a reader.Seek, the source is the one whose
\* range holds the producer cursor and the offset is inside the source; while
\* it is in a reader.Read, the source's cursor is at the producer cursor and
\* the bytes asked for are at least 1, at most bufferSize and at most what is
\* left of the source. For size lists with sources longer than a block, the
\* offset and the request computed for every position of the stream keep
\* within the selected source.
C35_SourceCallsInRange ==
    /\ pf.pc \in { "seek", "read" } =>
          LET i == pf.curReaderIdx
              localOffset == pf.curPos - m.prefixSizes[i]
              toRead == Min(bufferSize, m.prefixSizes[i + 1] - pf.curPos)
          IN /\ i \in DOMAIN readers
             /\ m.prefixSizes[i] <= pf.curPos /\ pf.curPos < m.prefixSizes[i + 1]
             /\ 0 <= localOffset /\ localOffset < readers[i].size
             /\ pf.pc = "read" =>
                   /\ readers[i].pos = localOffset
                   /\ 1 <= toRead /\ toRead <= bufferSize
                   /\ readers[i].pos + toRead <= readers[i].size
    /\ \A sz \in LongSourceLayouts :
          \A p \in 0..(NewMultiReader(0, sz).totalSize - 1) :
              LET s == SourceAt(sz, p)
                  n == ReadRequest(sz, p)
              IN /\ 0 <= s.localOffset /\ s.localOffset < sz[s.curReaderIdx + 1]
                 /\ 1 <= n /\ n <= bufferSize
                 /\ s.localOffset + n <= sz[s.curReaderIdx + 1]

\* the prefetcher is in a read of the last byte of the last source, with the
\* source's cursor in the middle of the source
C35_Witness ==
    /\ pf.pc = "read" /\ pf.curReaderIdx = 2
    /\ readers[2].pos = 1 /\ pf.curPos = m.prefixSizes[2] + 1
    /\ ~pf.needSeek

\* C36: tailIdx is (headIdx + occupiedCnt) modulo the number of slots, the
\* occupiedCnt slots from headIdx on hold a block each, and every other slot
\* is empty.
C36_RingConsistent ==
    LET K == BuffersNum(m)
        occupied == { (m.headIdx + i) % K : i \in 0..(m.occupiedCnt - 1) }
    IN /\ m.tailIdx = (m.headIdx + m.occupiedCnt) % K
       /\ \A j \in DOMAIN m.buffers : (j \in occupied) <=> (m.buffers[j] # <<>>)

\* C37: the occupied blocks, taken from the head block on, hold the bytes of
\* the stream from headStart on, each once and without a gap.
C37_WindowContiguous ==
    windowContent(m, 0) = Bytes(m.headStart, windowLen(m, 0))

\* C38: the step in which an exited prefetch goroutine runs close on the done
\* channel closes the channel made at its own launch, which was open until
\* then, and no other; no close panics.
C38_DoneClosedOnceByOwner ==
    [][ /\ \A g \in exited \ exited' :
              /\ g \notin chans.closed
              /\ chans'.closed = chans.closed \cup { g }
        /\ chans'.closed # chans.closed => exited' # exited
        /\ ~panicked' ]_vars

\* C39: a Read that waits for data returns in the end, unless Close is called
\* (or the program has panicked); in particular the consumer does not stay
\* for ever in cond.Wait with the window empty, the terminal slot empty and
\* no prefetch goroutine running.
C39_ReadReturns ==
    (cons.pc = "wait") ~> (cons.pc = "idle" \/ m.closed \/ panicked)

\* C40: a Close that waits for the prefetch goroutine returns in the end.
C40_CloseReturns ==
    (clo.pc = "waitDone") ~> clo.returned

====
